---- MODULE Spec2Model ----
(***************************************************************************)
(* Double pendulum simulator: the physical model (DoublePendulum.__init__, *)
(* DoublePendulum.derivatives) and the fixed-step RK4 integrator           *)
(* (DoublePendulum.integrate) of src/pendulum.py, and the handlers of the  *)
(* window (PendulumWindow.run_simulation, toggle_pause, save_data) of      *)
(* src/gui.py.  A behaviour is either a script that uses the class         *)
(* directly or the window driven by its user.                              *)
(*                                                                         *)
(* Python floats (binary64) are modelled by decimal floating-point numbers *)
(* with Digits significant digits and exponents within -MaxExp..MaxExp,    *)
(* together with the three non-finite values NaN, +inf and -inf.  Every    *)
(* arithmetic operation rounds its result to Digits digits, overflows to   *)
(* an infinity and underflows to zero, as IEEE arithmetic does.            *)
(***************************************************************************)
EXTENDS Integers, Sequences, FiniteSets, TLC

\* ------------------------------------------------------------------ bounds

\* Significant decimal digits kept by the modelled floating-point format.
Digits == 3

\* Largest decimal exponent of a finite value; beyond it a result overflows.
MaxExp == 40

\* Times handed to integrate are the multiples -1..MaxTicks of half a second.
MaxTicks == 4

\* ------------------------------------------------- floating-point numbers

RECURSIVE Pow10(_)
Pow10(n) == IF n <= 0 THEN 1 ELSE 10 * Pow10(n - 1)

Abs(n) == IF n < 0 THEN -n ELSE n

Sgn(n) == IF n < 0 THEN -1 ELSE IF n = 0 THEN 0 ELSE 1

NaN == [k |-> "nan", m |-> 0, e |-> 0]

PInf == [k |-> "inf", m |-> 1, e |-> 0]

NInf == [k |-> "inf", m |-> -1, e |-> 0]

Zero == [k |-> "fin", m |-> 0, e |-> 0]

IsNaN(a) == a.k = "nan"

IsInf(a) == a.k = "inf"

IsFinite(a) == a.k = "fin"

SignedInf(s) == IF s < 0 THEN NInf ELSE PInf

\* A normalised mantissa m has MantissaMin <= |m| < MantissaLimit.
MantissaLimit == Pow10(Digits)

MantissaMin == Pow10(Digits - 1)

\* The value m * 10^e rounded to Digits significant digits (half away from
\* zero), with overflow to an infinity and underflow to zero.
RECURSIVE Norm(_, _)
Norm(m, e) ==
    IF m = 0 THEN Zero
    ELSE IF Abs(m) >= MantissaLimit
    THEN Norm(Sgn(m) * ((Abs(m) + 5) \div 10), e + 1)
    ELSE IF Abs(m) < MantissaMin
    THEN Norm(m * 10, e - 1)
    ELSE IF e > MaxExp THEN SignedInf(m)
    ELSE IF e < -MaxExp THEN Zero
    ELSE [k |-> "fin", m |-> m, e |-> e]

\* The float literal m * 10^e.
F(m, e) == Norm(m, e)

\* float(n) of a Python int.
IntToFloat(n) == Norm(n, 0)

FNeg(a) == IF IsNaN(a) THEN NaN ELSE [a EXCEPT !.m = -a.m]

FAbs(a) == IF IsNaN(a) THEN NaN ELSE [a EXCEPT !.m = Abs(a.m)]

\* The sign of a - b for finite a, b, computed without rounding.
CmpFin(a, b) ==
    IF a.m = 0 THEN -Sgn(b.m)
    ELSE IF b.m = 0 THEN Sgn(a.m)
    ELSE IF Sgn(a.m) # Sgn(b.m) THEN Sgn(a.m)
    ELSE IF a.e > b.e THEN Sgn(a.m)
    ELSE IF a.e < b.e THEN -Sgn(a.m)
    ELSE Sgn(a.m - b.m)

\* a < b; as in IEEE arithmetic every comparison with NaN is false.
FLt(a, b) ==
    IF IsNaN(a) \/ IsNaN(b) THEN FALSE
    ELSE IF IsInf(a) THEN a.m < 0 /\ ~(IsInf(b) /\ b.m < 0)
    ELSE IF IsInf(b) THEN b.m > 0
    ELSE CmpFin(a, b) < 0

FEq(a, b) == ~IsNaN(a) /\ ~IsNaN(b) /\ a = b

FLe(a, b) == FLt(a, b) \/ FEq(a, b)

FGe(a, b) == FLe(b, a)

FGt(a, b) == FLt(b, a)

FAdd(a, b) ==
    IF IsNaN(a) \/ IsNaN(b) THEN NaN
    ELSE IF IsInf(a) THEN (IF IsInf(b) /\ b.m # a.m THEN NaN ELSE a)
    ELSE IF IsInf(b) THEN b
    ELSE IF a.m = 0 THEN b
    ELSE IF b.m = 0 THEN a
    ELSE IF a.e - b.e > Digits THEN a
    ELSE IF b.e - a.e > Digits THEN b
    ELSE IF a.e >= b.e THEN Norm(a.m * Pow10(a.e - b.e) + b.m, b.e)
    ELSE Norm(a.m + b.m * Pow10(b.e - a.e), a.e)

FSub(a, b) == FAdd(a, FNeg(b))

FMul(a, b) ==
    IF IsNaN(a) \/ IsNaN(b) THEN NaN
    ELSE IF IsInf(a) \/ IsInf(b)
    THEN (IF a.m = 0 \/ b.m = 0 THEN NaN ELSE SignedInf(Sgn(a.m) * Sgn(b.m)))
    ELSE Norm(a.m * b.m, a.e + b.e)

\* numpy float64 division: x/0 is an infinity (NaN for 0/0), never an exception.
FDiv(a, b) ==
    IF IsNaN(a) \/ IsNaN(b) THEN NaN
    ELSE IF IsInf(a) THEN (IF IsInf(b) THEN NaN
                           ELSE SignedInf(a.m * (IF b.m < 0 THEN -1 ELSE 1)))
    ELSE IF IsInf(b) THEN Zero
    ELSE IF b.m = 0 THEN (IF a.m = 0 THEN NaN ELSE SignedInf(a.m))
    ELSE Norm(Sgn(a.m) * Sgn(b.m) * ((Abs(a.m) * (10 * MantissaLimit)) \div Abs(b.m)),
              a.e - b.e - (Digits + 1))

\* ceil(a) of a finite float, as a Python int.
FCeil(a) ==
    IF a.e >= 0 THEN a.m * Pow10(a.e)
    ELSE IF -a.e > Digits THEN (IF a.m > 0 THEN 1 ELSE 0)
    ELSE -((-a.m) \div Pow10(-a.e))

\* 10^n mod q, by repeated multiplication.
RECURSIVE PowMod10(_, _)
PowMod10(n, q) == IF n <= 0 THEN 1 % q ELSE (10 * PowMod10(n - 1, q)) % q

\* pi and 2*pi in thousandths of a radian.
MilliPi == 3142

MilliTwoPi == 6283

\* A finite angle reduced to 0 .. 2*pi, in thousandths of a radian.
MilliAngle(a) ==
    LET r == IF a.e + 3 >= 0
             THEN ((Abs(a.m) % MilliTwoPi) * PowMod10(a.e + 3, MilliTwoPi)) % MilliTwoPi
             ELSE IF -(a.e + 3) > Digits THEN 0
             ELSE (Abs(a.m) \div Pow10(-(a.e + 3))) % MilliTwoPi
    IN IF a.m < 0 THEN (MilliTwoPi - r) % MilliTwoPi ELSE r

\* sin of x thousandths of a radian, 0 <= x < 2*pi (Bhaskara's rational
\* approximation 16 x (pi - x) / (5 pi^2 - 4 x (pi - x)) on 0 .. pi).
SinMilli(x) ==
    LET y == IF x >= MilliPi THEN x - MilliPi ELSE x
        p == y * (MilliPi - y)
        v == FDiv(Norm(16 * p, 0), Norm(5 * MilliPi * MilliPi - 4 * p, 0))
    IN IF x >= MilliPi THEN FNeg(v) ELSE v

\* np.sin: NaN for a non-finite argument (numpy warns, it does not raise).
FSin(a) == IF ~IsFinite(a) THEN NaN ELSE SinMilli(MilliAngle(a))

\* np.cos, as sin(a + pi/2).
FCos(a) ==
    IF ~IsFinite(a) THEN NaN
    ELSE SinMilli((MilliAngle(a) + MilliPi \div 2) % MilliTwoPi)

\* ---------------------------------------------------- numpy vectors, strings

\* Element-wise u + v of two arrays of the same length.
VAdd(u, v) == [j \in 1..Len(u) |-> FAdd(u[j], v[j])]

\* Element-wise c * v of a scalar and an array.
VScale(c, v) == [j \in 1..Len(v) |-> FMul(c, v[j])]

\* y0.shape of a one-dimensional array.
Shape(v) == <<Len(v)>>

Uppers == <<"A", "B", "C", "D", "E", "F", "G", "H", "I", "J", "K", "L", "M",
            "N", "O", "P", "Q", "R", "S", "T", "U", "V", "W", "X", "Y", "Z">>

Lowers == <<"a", "b", "c", "d", "e", "f", "g", "h", "i", "j", "k", "l", "m",
            "n", "o", "p", "q", "r", "s", "t", "u", "v", "w", "x", "y", "z">>

LowerChar(c) ==
    IF \E j \in 1..Len(Uppers) : Uppers[j] = c
    THEN Lowers[CHOOSE j \in 1..Len(Uppers) : Uppers[j] = c]
    ELSE c

\* str.lower() of a string held as its sequence of characters.
Lower(str) == [j \in 1..Len(str) |-> LowerChar(str[j])]

\* ------------------------------------------------------ Python numbers

\* A Python number handed to the constructor: an int or a float.
PyInt(n) == [py |-> "int", n |-> n, v |-> Zero]

PyFloat(v) == [py |-> "float", n |-> 0, v |-> v]

\* x <= 0
LeZero(x) == IF x.py = "int" THEN x.n <= 0 ELSE FLe(x.v, Zero)

\* x < 0
LtZero(x) == IF x.py = "int" THEN x.n < 0 ELSE FLt(x.v, Zero)

\* float(x)
ToFloat(x) == IF x.py = "int" THEN IntToFloat(x.n) ELSE x.v

\* ------------------------------------------------------------- errors

NoError == [kind |-> "none", arg |-> "none", named |-> <<>>]

ValueError(arg) == [kind |-> "ValueError", arg |-> arg, named |-> <<>>]

NotImplementedError(method) ==
    [kind |-> "NotImplementedError", arg |-> "method", named |-> method]

\* ---------------------------------------------- DoublePendulum.__init__

\* The default of the parameter g.
DefaultG == PyFloat(F(981, -2))

\* The checks with < in place of <=: a zero length or mass passes.
InitErrorStrict(L1, L2, m1, m2) ==
    IF LtZero(L1) \/ LtZero(L2) THEN ValueError("L")
    ELSE IF LtZero(m1) \/ LtZero(m2) THEN ValueError("m")
    ELSE NoError

\* The exception __init__ raises for these arguments, NoError if none.
InitError(L1, L2, m1, m2) ==
    IF LeZero(L1) \/ LeZero(L2) THEN ValueError("L")
    ELSE IF LeZero(m1) \/ LeZero(m2) THEN ValueError("m")
    ELSE NoError

\* The attributes __init__ sets.
NewInstance(L1, L2, m1, m2, g) ==
    [L1 |-> ToFloat(L1), L2 |-> ToFloat(L2),
     m1 |-> ToFloat(m1), m2 |-> ToFloat(m2), g |-> ToFloat(g)]

\* ------------------------------------------- DoublePendulum.derivatives

eps == F(1, -8)

Delta(state) == FSub(state[1], state[2])

\* self.m1 + self.m2 * sinD * sinD
Inertia(self, sinD) == FAdd(self.m1, FMul(FMul(self.m2, sinD), sinD))

Denom1(self, sinD) == FMul(self.L1, Inertia(self, sinD))

Denom2(self, sinD) == FMul(self.L2, Inertia(self, sinD))

Num1(self, state, sinD, cosD) ==
    LET theta1 == state[1]
        theta2 == state[2]
        omega1 == state[3]
        omega2 == state[4]
        a == FMul(FMul(FMul(self.m2, self.g), FSin(theta2)), cosD)
        b == FMul(FMul(self.m2, sinD),
                  FAdd(FMul(FMul(self.L1, FMul(omega1, omega1)), cosD),
                       FMul(self.L2, FMul(omega2, omega2))))
        c == FMul(FMul(FAdd(self.m1, self.m2), self.g), FSin(theta1))
    IN FSub(FSub(a, b), c)

Num2(self, state, sinD, cosD) ==
    LET theta1 == state[1]
        theta2 == state[2]
        omega1 == state[3]
        omega2 == state[4]
        inner == FAdd(FSub(FMul(FMul(self.L1, FMul(omega1, omega1)), sinD),
                           FMul(self.g, FSin(theta2))),
                      FMul(FMul(self.g, FSin(theta1)), cosD))
        d == FMul(FMul(FMul(FMul(self.m2, self.L2), FMul(omega2, omega2)), sinD), cosD)
    IN FAdd(FMul(FAdd(self.m1, self.m2), inner), d)

\* derivatives with the two velocities of the result in swapped places.
DerivativesSwapped(self, state) ==
    LET sinD == FSin(Delta(state))
        cosD == FCos(Delta(state))
        denom1 == Denom1(self, sinD)
        denom2 == Denom2(self, sinD)
        near == FLt(FAbs(denom1), eps) \/ FLt(FAbs(denom2), eps)
    IN IF near
       THEN [out |-> <<state[4], state[3], Zero, Zero>>, branch |-> "guard"]
       ELSE [out |-> <<state[4], state[3],
                       FDiv(Num1(self, state, sinD, cosD), denom1),
                       FDiv(Num2(self, state, sinD, cosD), denom2)>>,
             branch |-> "divide"]

\* The degeneracy test with "and" in place of "or".
DegenerateBoth(denom1, denom2) == FLt(FAbs(denom1), eps) /\ FLt(FAbs(denom2), eps)

\* The degeneracy test of derivatives.
Degenerate(denom1, denom2) == FLt(FAbs(denom1), eps) \/ FLt(FAbs(denom2), eps)

\* derivatives(state): the returned array, and the branch that produced it.
Derivatives(self, state) ==
    LET sinD == FSin(Delta(state))
        cosD == FCos(Delta(state))
        denom1 == Denom1(self, sinD)
        denom2 == Denom2(self, sinD)
    IN IF Degenerate(denom1, denom2)
       THEN [out |-> <<state[3], state[4], Zero, Zero>>, branch |-> "guard"]
       ELSE [out |-> <<state[3], state[4],
                       FDiv(Num1(self, state, sinD, cosD), denom1),
                       FDiv(Num2(self, state, sinD, cosD), denom2)>>,
             branch |-> "divide"]

\* --------------------------------------------- DoublePendulum.integrate

\* The argument checks with a finiteness check of y0 added.
CheckArgsFinite(y0, t_max, dt) ==
    IF FLe(dt, Zero) THEN ValueError("dt")
    ELSE IF FLe(t_max, Zero) THEN ValueError("t_max")
    ELSE IF Shape(y0) # <<4>> \/ \E j \in 1..Len(y0) : ~IsFinite(y0[j])
    THEN ValueError("y0")
    ELSE NoError

\* The exception the argument checks of integrate raise, NoError if none.
CheckArgs(y0, t_max, dt) ==
    IF FLe(dt, Zero) THEN ValueError("dt")
    ELSE IF FLe(t_max, Zero) THEN ValueError("t_max")
    ELSE IF Shape(y0) # <<4>> THEN ValueError("y0")
    ELSE NoError

\* The stop of the grid without the half step: np.arange(0.0, t_max, dt).
GridStopNoHalfStep(t_max, dt) == t_max

\* t_max + dt / 2
GridStop(t_max, dt) == FAdd(t_max, FDiv(dt, IntToFloat(2)))

\* A closed interval instead of np.arange's half-open one: the sample that
\* falls exactly on stop is kept.
ArangeLenClosed(start, stop, step) ==
    LET q == FDiv(FSub(stop, start), step)
        n == FCeil(q)
    IN IF n < 0 THEN 0 ELSE IF IntToFloat(n) = q THEN n + 1 ELSE n

\* The length of np.arange(start, stop, step): ceil((stop - start) / step).
ArangeLen(start, stop, step) ==
    LET n == FCeil(FDiv(FSub(stop, start), step))
    IN IF n < 0 THEN 0 ELSE n

\* np.arange(start, stop, step): the samples start + k * step.
Arange(start, stop, step) ==
    [k \in 1..ArangeLen(start, stop, step) |->
        FAdd(start, FMul(IntToFloat(k - 1), step))]

\* np.zeros((n, 4), dtype=float)
Zeros(n) == [r \in 1..n |-> <<Zero, Zero, Zero, Zero>>]

\* The comparison without lower(): method == "rk4".
IsRk4CaseSensitive(method) == method = <<"r", "k", "4">>

\* method.lower() == "rk4"
IsRk4(method) == Lower(method) = <<"r", "k", "4">>

\* yi + 0.5 * dt_i * k
HalfStep(yi, dt_i, k) == VAdd(yi, VScale(FMul(F(5, -1), dt_i), k))

\* yi + dt_i * k
FullStep(yi, dt_i, k) == VAdd(yi, VScale(dt_i, k))

\* yi + (dt_i / 6.0) * (k1 + 2 * k2 + 2 * k3 + k4)
Rk4Step(yi, dt_i, k1, k2, k3, k4) ==
    VAdd(yi, VScale(FDiv(dt_i, IntToFloat(6)),
                    VAdd(VAdd(VAdd(k1, VScale(IntToFloat(2), k2)),
                              VScale(IntToFloat(2), k3)),
                         k4)))

\* ------------------------------------------------------------- inputs

Tick(n) == F(5 * n, -1)

Times == {Tick(n) : n \in -1..MaxTicks}

HalfPi == F(157, -2)

Y0Swing == <<HalfPi, HalfPi, F(3, 0), Zero>>

Y0Bent == <<F(1, 0), F(-5, -1), Zero, F(1, 0)>>

Y0Set == {Y0Swing, Y0Bent,
          <<NaN, Zero, Zero, Zero>>, <<HalfPi, Zero, PInf, Zero>>,
          <<>>, SubSeq(Y0Swing, 1, 3), Y0Swing \o <<Zero>>}

\* States handed to derivatives directly.
States == {v \in Y0Set : Len(v) = 4} \cup
          {<<Zero, Zero, Zero, Zero>>, <<F(314, -2), Zero, F(-2, 0), F(5, -1)>>}

Methods == {<<"r", "k", "4">>, <<"R", "K", "4">>, <<"R", "k", "4">>,
            <<"E", "u", "l", "e", "r">>}

\* 5e-9 puts the denominators on either side of eps as sin(delta) varies.
L1Args == {PyFloat(Zero), PyFloat(F(1, -9)), PyFloat(F(5, -9)), PyFloat(F(2, 0))}

L2Args == {PyInt(-1), PyFloat(F(1, -9)), PyInt(2)}

m1Args == {PyFloat(F(-1, 0)), PyInt(1)}

m2Args == {PyInt(0), PyInt(3)}

\* The argument g: omitted, or given.
gArgs == {<<>>, <<PyFloat(F(162, -2))>>}

\* ----------------------------------------------------- PendulumWindow

\* The values the spin boxes are created with.
SpinDefaults ==
    [l1_spin |-> F(2, 0), l2_spin |-> F(2, 0), m1_spin |-> F(1, 0), m2_spin |-> F(3, 0),
     theta1_spin |-> HalfPi, theta2_spin |-> HalfPi,
     omega1_spin |-> F(3, 0), omega2_spin |-> Zero,
     tmax_spin |-> F(25, 0), dt_spin |-> F(3, -2)]

\* setRange of the spin boxes the user edits here.
SpinRange ==
    [l1_spin |-> [min |-> F(1, -1), max |-> F(10, 0)],
     tmax_spin |-> [min |-> F(1, -1), max |-> F(100, 0)],
     dt_spin |-> [min |-> F(1, -3), max |-> F(1, 0)]]

\* The values the user enters; a spin box takes only those within its range.
SpinEntries ==
    [l1_spin |-> {F(1, -1), F(2, 0)},
     tmax_spin |-> {F(1, 0), F(25, 0)},
     dt_spin |-> {F(3, -2), F(5, -1), F(1, 0), F(2, 0)}]

\* The two texts of the pause button, "Пауза" and "Возобновить", in Latin letters.
PauseText == "Pauza"

ResumeText == "Vozobnovit"

DataFile == <<"pendulum_data", ".npz">>

\* The window's attributes and buttons after __init__.
NewWindow ==
    [t |-> <<>>, Y |-> <<>>, ani |-> <<>>, paused |-> FALSE,
     pause_button |-> [text |-> PauseText, enabled |-> FALSE],
     save_button |-> [enabled |-> FALSE]]

\* animation.FuncAnimation(fig, animate_frame, frames=len(t), ...): the
\* animation's timer runs from the first draw of the canvas on.
FuncAnimation(frames) == [frames |-> frames, event_source |-> "running"]

\* np.savez appends .npz to a name that does not end with it.
NpzName(filename) ==
    IF Len(filename) > 0 /\ filename[Len(filename)] = ".npz"
    THEN filename
    ELSE Append(filename, ".npz")

\* save_to_file(t, Y, filename): the file np.savez(filename, t=t, Y=Y) writes.
SaveToFile(self, a_t, a_Y, filename) ==
    [name |-> NpzName(filename), t |-> a_t, Y |-> a_Y]

\* -------------------------------------------------------------- state

VARIABLES
    pend,       \* the instance the latest constructor call made: <<>> or <<instance>>
    ctorArgs,   \* the arguments of the latest constructor call, <<>> before the first
    ctorErr,    \* the exception the latest constructor call raised
    pc,         \* the position of the integrate call in progress
    y0, t_max, dt, method,  \* the arguments of that call (y0 is the caller's array)
    t, N, Y,    \* its time grid, its length and the state array
    i,          \* the loop variable of range(N - 1)
    yi, ks,     \* the row the iteration reads, and the stages k1.. computed so far
    err,        \* the exception integrate raised
    result,     \* what integrate returned: <<>> or <<t, Y>>
    calls,      \* every derivatives call of this integrate call: argument, result, branch
    writes,     \* the rows of Y assigned by the loop, in order
    dcall,      \* the latest direct call of derivatives: <<>> or <<its record>>
    program,    \* what runs: "script" uses the class directly, "gui" is PendulumWindow
    spins,      \* the values of the window's spin boxes
    window,     \* the window's t, Y, ani, paused and its pause and save buttons
    file        \* the file save_to_file wrote: <<>> or <<its name and arrays>>

ctor == <<pend, ctorArgs, ctorErr>>

params == <<y0, t_max, dt, method>>

locals == <<t, N, Y, i, yi, ks>>

outcome == <<err, result>>

logs == <<calls, writes, dcall>>

gui == <<program, spins, window, file>>

vars == <<pend, ctorArgs, ctorErr, pc, y0, t_max, dt, method, t, N, Y, i, yi, ks,
          err, result, calls, writes, dcall, program, spins, window, file>>

Self == pend[1]

Init ==
    /\ pend = <<>>
    /\ ctorArgs = <<>>
    /\ ctorErr = NoError
    /\ pc = "idle"
    /\ y0 = <<>>
    /\ t_max = Zero
    /\ dt = Zero
    /\ method = <<>>
    /\ t = <<>>
    /\ N = 0
    /\ Y = <<>>
    /\ i = 0
    /\ yi = <<>>
    /\ ks = <<>>
    /\ err = NoError
    /\ result = <<>>
    /\ calls = <<>>
    /\ writes = <<>>
    /\ dcall = <<>>
    /\ program \in {"script", "gui"}
    /\ spins = SpinDefaults
    /\ window = NewWindow
    /\ file = <<>>

\* pend = DoublePendulum(L1, L2, m1, m2[, g])
Construct(L1, L2, m1, m2, g) ==
    /\ program = "script"
    /\ pc = "idle"
    /\ ctorArgs' = <<[L1 |-> L1, L2 |-> L2, m1 |-> m1, m2 |-> m2, g |-> g]>>
    /\ ctorErr' = InitError(L1, L2, m1, m2)
    /\ pend' = IF InitError(L1, L2, m1, m2) = NoError
               THEN <<NewInstance(L1, L2, m1, m2, IF g = <<>> THEN DefaultG ELSE g[1])>>
               ELSE <<>>
    /\ dcall' = <<>>
    /\ UNCHANGED <<pc, params, locals, outcome, calls, writes, gui>>

\* The record of one derivatives call: its argument, the returned array, the
\* branch taken. after is the argument array once the call is over: derivatives unpacks it
\* and assigns to none of its elements.
CallRecord(self, state) ==
    LET d == Derivatives(self, state)
    IN [arg |-> state, out |-> d.out, branch |-> d.branch, after |-> state]

\* dstate = pend.derivatives(state), called by itself.
DerivativesCall(state) ==
    /\ program = "script"
    /\ pc = "idle"
    /\ pend # <<>>
    /\ dcall' = <<CallRecord(Self, state)>>
    /\ UNCHANGED <<gui, ctor, pc, params, locals, outcome, calls, writes>>

\* pend.integrate(y0, t_max, dt, method) is entered.
Call(a_y0, a_t_max, a_dt, a_method) ==
    /\ program = "script"
    /\ pc = "idle"
    /\ pend # <<>>
    /\ y0' = a_y0
    /\ t_max' = a_t_max
    /\ dt' = a_dt
    /\ method' = a_method
    /\ pc' = "check"
    /\ dcall' = <<>>
    /\ UNCHANGED <<gui, ctor, locals, outcome, calls, writes>>

\* The argument checks with the method check moved up to them, ahead of the
\* grid construction.
CheckMethodFirst ==
    /\ pc = "check"
    /\ IF CheckArgs(y0, t_max, dt) # NoError
       THEN pc' = "raised" /\ err' = CheckArgs(y0, t_max, dt)
       ELSE IF ~IsRk4(method)
       THEN pc' = "raised" /\ err' = NotImplementedError(method)
       ELSE pc' = "grid" /\ err' = err
    /\ UNCHANGED <<gui, ctor, params, locals, result, logs>>

\* The three argument checks.
Check ==
    /\ pc = "check"
    /\ IF CheckArgs(y0, t_max, dt) = NoError
       THEN pc' = "grid" /\ err' = err
       ELSE pc' = "raised" /\ err' = CheckArgs(y0, t_max, dt)
    /\ UNCHANGED <<gui, ctor, params, locals, result, logs>>

\* t = np.arange(...); N = t.shape[0]; Y = np.zeros((N, 4)); Y[0, :] = y0
Grid ==
    /\ pc = "grid"
    /\ t' = Arange(Zero, GridStop(t_max, dt), dt)
    /\ N' = Len(t')
    /\ Y' = [Zeros(N') EXCEPT ![1] = y0]
    /\ pc' = "dispatch"
    /\ UNCHANGED <<gui, ctor, params, i, yi, ks, outcome, logs>>

\* if method.lower() == "rk4": ... else: raise NotImplementedError
Dispatch ==
    /\ pc = "dispatch"
    /\ IF IsRk4(method)
       THEN pc' = "loop" /\ i' = 0 /\ err' = err
       ELSE pc' = "raised" /\ i' = i /\ err' = NotImplementedError(method)
    /\ UNCHANGED <<gui, ctor, params, t, N, Y, yi, ks, result, logs>>

\* for i in range(N - 1): the next iteration starts, or the loop ends.
Loop ==
    /\ pc = "loop"
    /\ IF i < N - 1
       THEN pc' = "k1" /\ yi' = Y[i + 1] /\ ks' = <<>>
       ELSE pc' = "return" /\ yi' = yi /\ ks' = ks
    /\ UNCHANGED <<gui, ctor, params, t, N, Y, i, outcome, logs>>

\* One call of self.derivatives, with its argument and result logged.
Evaluate(state, next) ==
    /\ LET c == CallRecord(Self, state)
       IN /\ ks' = Append(ks, c.out)
          /\ calls' = Append(calls, c)
    /\ pc' = next
    /\ UNCHANGED <<gui, ctor, params, t, N, Y, i, yi, outcome, writes, dcall>>

K1 == pc = "k1" /\ Evaluate(yi, "k2")

K2 == pc = "k2" /\ Evaluate(HalfStep(yi, dt, ks[1]), "k3")

\* The third stage taken from k1 instead of k2.
K3FromK1 == pc = "k3" /\ Evaluate(HalfStep(yi, dt, ks[1]), "k4")

K3 == pc = "k3" /\ Evaluate(HalfStep(yi, dt, ks[2]), "k4")

K4 == pc = "k4" /\ Evaluate(FullStep(yi, dt, ks[3]), "write")

\* The update stored over the row it was computed from: Y[i, :] = ...
WriteInPlace ==
    /\ pc = "write"
    /\ Y' = [Y EXCEPT ![i + 1] = Rk4Step(yi, dt, ks[1], ks[2], ks[3], ks[4])]
    /\ writes' = Append(writes, i)
    /\ i' = i + 1
    /\ pc' = "loop"
    /\ UNCHANGED <<gui, ctor, params, t, N, yi, ks, outcome, calls, dcall>>

\* Y[i + 1, :] = yi + (dt_i / 6.0) * (k1 + 2 * k2 + 2 * k3 + k4)
Write ==
    /\ pc = "write"
    /\ Y' = [Y EXCEPT ![i + 2] = Rk4Step(yi, dt, ks[1], ks[2], ks[3], ks[4])]
    /\ writes' = Append(writes, i + 1)
    /\ i' = i + 1
    /\ pc' = "loop"
    /\ UNCHANGED <<gui, ctor, params, t, N, yi, ks, outcome, calls, dcall>>

\* return t, Y
Return ==
    /\ pc = "return"
    /\ result' = <<t, Y>>
    /\ pc' = "done"
    /\ UNCHANGED <<gui, ctor, params, locals, err, logs>>

\* The caller has the result or the exception; the frame is gone.
Finish ==
    /\ program = "script"
    /\ pc \in {"done", "raised"}
    /\ pc' = "idle"
    /\ y0' = <<>>
    /\ t_max' = Zero
    /\ dt' = Zero
    /\ method' = <<>>
    /\ t' = <<>>
    /\ N' = 0
    /\ Y' = <<>>
    /\ i' = 0
    /\ yi' = <<>>
    /\ ks' = <<>>
    /\ err' = NoError
    /\ result' = <<>>
    /\ calls' = <<>>
    /\ writes' = <<>>
    /\ UNCHANGED <<gui, ctor, dcall>>

\* ----------------------------------------------- PendulumWindow, handlers

\* The user sets a spin box.
SetValue(spin, v) ==
    /\ program = "gui"
    /\ pc = "idle"
    /\ FGe(v, SpinRange[spin].min)
    /\ FLe(v, SpinRange[spin].max)
    /\ spins' = [spins EXCEPT ![spin] = v]
    /\ UNCHANGED <<ctor, pc, params, locals, outcome, logs, program, window, file>>

\* DoublePendulum(L1=float(l1_spin.value()), ...), g left to its default.
SpinArgs ==
    [L1 |-> PyFloat(spins.l1_spin), L2 |-> PyFloat(spins.l2_spin),
     m1 |-> PyFloat(spins.m1_spin), m2 |-> PyFloat(spins.m2_spin), g |-> <<>>]

\* The exception that construction from the spin boxes raises, NoError if none.
SpinError == InitError(SpinArgs.L1, SpinArgs.L2, SpinArgs.m1, SpinArgs.m2)

\* The instance that construction from the spin boxes makes.
SpinInstance == NewInstance(SpinArgs.L1, SpinArgs.L2, SpinArgs.m1, SpinArgs.m2, DefaultG)

\* np.array([theta1_0, theta2_0, omega1_0, omega2_0], dtype=float)
SpinY0 == <<spins.theta1_spin, spins.theta2_spin, spins.omega1_spin, spins.omega2_spin>>

\* run_simulation kept to the instance at hand: its attributes are assigned
\* from the spin boxes, and an instance is constructed only if there is none.
RunSimulationReusing ==
    /\ program = "gui"
    /\ pc = "idle"
    /\ ArangeLen(Zero, GridStop(spins.tmax_spin, spins.dt_spin), spins.dt_spin) <= MaxTicks + 1
    /\ IF pend = <<>>
       THEN /\ ctorArgs' = <<SpinArgs>>
            /\ ctorErr' = SpinError
            /\ pend' = <<SpinInstance>>
       ELSE /\ pend' = <<[pend[1] EXCEPT !.L1 = spins.l1_spin, !.L2 = spins.l2_spin,
                                         !.m1 = spins.m1_spin, !.m2 = spins.m2_spin]>>
            /\ UNCHANGED <<ctorArgs, ctorErr>>
    /\ y0' = SpinY0
    /\ t_max' = spins.tmax_spin
    /\ dt' = spins.dt_spin
    /\ method' = <<"r", "k", "4">>
    /\ pc' = "check"
    /\ UNCHANGED <<locals, outcome, logs, gui>>

\* run_simulation up to its call of integrate: the spin boxes are read, a
\* DoublePendulum is constructed from them and integrate is entered. The runs
\* explored have grids of at most MaxTicks + 1 samples, as the script's calls.
RunSimulation ==
    /\ program = "gui"
    /\ pc = "idle"
    /\ ArangeLen(Zero, GridStop(spins.tmax_spin, spins.dt_spin), spins.dt_spin) <= MaxTicks + 1
    /\ ctorArgs' = <<SpinArgs>>
    /\ ctorErr' = SpinError
    /\ IF SpinError = NoError
       THEN /\ pend' = <<SpinInstance>>
            /\ y0' = SpinY0
            /\ t_max' = spins.tmax_spin
            /\ dt' = spins.dt_spin
            /\ method' = <<"r", "k", "4">>
            /\ pc' = "check"
       ELSE /\ pend' = <<>>
            /\ UNCHANGED <<pc, params>>
    /\ UNCHANGED <<locals, outcome, logs, gui>>

\* run_simulation from the return of integrate on: t and Y are stored, the
\* buttons enabled, a new FuncAnimation is stored in ani and the canvas drawn.
\* An exception of integrate leaves the handler at once.
RunSimulationDone ==
    /\ program = "gui"
    /\ pc \in {"done", "raised"}
    /\ window' = IF pc = "done"
                 THEN [window EXCEPT !.t = <<result[1]>>,
                                     !.Y = <<result[2]>>,
                                     !.pause_button.enabled = TRUE,
                                     !.save_button.enabled = TRUE,
                                     !.ani = <<FuncAnimation(Len(result[1]))>>]
                 ELSE window
    /\ pc' = "idle"
    /\ y0' = <<>>
    /\ t_max' = Zero
    /\ dt' = Zero
    /\ method' = <<>>
    /\ t' = <<>>
    /\ N' = 0
    /\ Y' = <<>>
    /\ i' = 0
    /\ yi' = <<>>
    /\ ks' = <<>>
    /\ err' = NoError
    /\ result' = <<>>
    /\ calls' = <<>>
    /\ writes' = <<>>
    /\ UNCHANGED <<ctor, dcall, program, spins, file>>

\* toggle_pause
TogglePause ==
    /\ program = "gui"
    /\ pc = "idle"
    /\ window' =
          IF window.ani = <<>> THEN window
          ELSE IF window.paused
          THEN [window EXCEPT !.ani[1].event_source = "running",
                              !.pause_button.text = PauseText,
                              !.paused = FALSE]
          ELSE [window EXCEPT !.ani[1].event_source = "stopped",
                              !.pause_button.text = ResumeText,
                              !.paused = TRUE]
    /\ UNCHANGED <<ctor, pc, params, locals, outcome, logs, program, spins, file>>

\* save_data: nothing without a trajectory; else a DoublePendulum is
\* constructed from the spin boxes and its save_to_file writes t and Y.
SaveData ==
    /\ program = "gui"
    /\ pc = "idle"
    /\ IF window.t = <<>> \/ window.Y = <<>>
       THEN UNCHANGED <<ctor, file>>
       ELSE /\ ctorArgs' = <<SpinArgs>>
            /\ ctorErr' = SpinError
            /\ pend' = IF SpinError = NoError THEN <<SpinInstance>> ELSE <<>>
            /\ file' = IF SpinError = NoError
                       THEN <<SaveToFile(SpinInstance, window.t[1], window.Y[1], DataFile)>>
                       ELSE file
    /\ UNCHANGED <<pc, params, locals, outcome, logs, program, spins, window>>

Next ==
    \/ \E L1 \in L1Args, L2 \in L2Args, m1 \in m1Args, m2 \in m2Args, g \in gArgs :
          Construct(L1, L2, m1, m2, g)
    \/ \E a_y0 \in Y0Set, a_t_max \in Times, a_dt \in Times, a_method \in Methods :
          Call(a_y0, a_t_max, a_dt, a_method)
    \/ \E state \in States : DerivativesCall(state)
    \/ Check
    \/ Grid
    \/ Dispatch
    \/ Loop
    \/ K1
    \/ K2
    \/ K3
    \/ K4
    \/ Write
    \/ Return
    \/ Finish
    \/ \E spin \in DOMAIN SpinEntries : \E v \in SpinEntries[spin] : SetValue(spin, v)
    \/ RunSimulation
    \/ RunSimulationDone
    \/ TogglePause
    \/ SaveData

Spec == Init /\ [][Next]_vars

\* ========================================================== properties

Two == IntToFloat(2)

\* The samples k * dt, k = 0, 1, 2, ..., that a grid for these bounds can hold.
Multiples == 0..(2 * MaxTicks + 3)

Returned == pc = "done"

\* The returned time grid and state array.
RetT == result[1]

RetY == result[2]

LastT == RetT[Len(RetT)]

AllFinite(v) == \A j \in 1..Len(v) : IsFinite(v[j])

\* ------------------------------------------------------------------ C1

GridSamplesAre(T, keep(_)) ==
    /\ Len(T) = Cardinality({k \in Multiples : keep(FMul(IntToFloat(k), dt))})
    /\ \A k \in 1..Len(T) : T[k] = FMul(IntToFloat(k - 1), dt)
    /\ Len(T) >= 1 => T[1] = Zero
    /\ \A k \in 1..(Len(T) - 1) : FSub(T[k + 1], T[k]) = dt

\* C6 as stated: the grid is the samples k*dt with k*dt <= t_max + dt/2,
\* the bound inclusive (here for the calls with a y0 of finite reals).
C6_GridBoundInclusive ==
    (Returned /\ AllFinite(y0)) =>
        LET Keep(x) == FLe(x, FAdd(t_max, FDiv(dt, Two)))
        IN GridSamplesAre(RetT, Keep)

\* C6 (amended): the grid is the samples k*dt with k*dt < t_max + dt/2, the
\* bound exclusive; t[0] = 0 and consecutive samples differ by dt.
C6_GridBoundExclusive ==
    Returned =>
        LET Keep(x) == FLt(x, FAdd(t_max, FDiv(dt, Two)))
        IN GridSamplesAre(RetT, Keep)

\* A returned grid that leaves out the sample lying exactly at t_max + dt/2
\* (t_max = 1.5, dt = 1.0: 2.0 is not a sample).
C6_Witness ==
    /\ Returned
    /\ t_max = Tick(3)
    /\ dt = Tick(2)
    /\ FMul(Two, dt) = FAdd(t_max, FDiv(dt, Two))
    /\ RetT = <<Zero, Tick(2)>>

\* ------------------------------------------------------------------ C7

\* C7: when t_max = k*dt for an integer k >= 1, the returned grid is exactly
\* the k + 1 samples 0, dt, ..., k*dt, and its last sample equals t_max.
C7_ExactMultipleGrid ==
    Returned =>
        \A k \in Multiples \ {0} :
            FMul(IntToFloat(k), dt) = t_max =>
                /\ N = k + 1
                /\ Len(RetT) = k + 1
                /\ \A j \in 0..k : RetT[j + 1] = FMul(IntToFloat(j), dt)
                /\ LastT = t_max

\* The example of the specification: t_max = 1.0, dt = 0.5 gives [0.0, 0.5, 1.0].
C7_Witness ==
    /\ Returned
    /\ t_max = F(1, 0)
    /\ dt = F(5, -1)
    /\ RetT = <<Zero, F(5, -1), F(1, 0)>>
    /\ N = 3

\* ------------------------------------------------------------------ C2

Raised == pc = "raised"

\* C2 as stated: whenever integrate fails, no derivatives call has been made,
\* no time grid or state array has been built, and nothing is returned.
C2_FailureBeforeAnyWork ==
    Raised => /\ calls = <<>>
              /\ t = <<>>
              /\ Y = <<>>
              /\ result = <<>>

\* C2 (amended): whenever integrate fails, no derivatives call has been made,
\* no row has been integrated and nothing is returned; the failures of the
\* three argument checks come before the grid is built, but the failure for
\* an unsupported method comes after the time grid and the state array (row
\* 0 set to y0, the others zero) have been built.
C2_FailureBeforeAnyStep ==
    Raised => /\ calls = <<>>
              /\ writes = <<>>
              /\ result = <<>>
              /\ err.kind \in {"ValueError", "NotImplementedError"}
              /\ err.kind = "ValueError" => t = <<>> /\ Y = <<>>
              /\ err.kind = "NotImplementedError" =>
                    /\ Len(t) >= 1
                    /\ Len(Y) = Len(t)
                    /\ Y[1] = y0
                    /\ \A r \in 2..Len(Y) : Y[r] = <<Zero, Zero, Zero, Zero>>

\* integrate has failed on the method "Euler" with a grid of 3 samples built.
C2_Witness ==
    /\ Raised
    /\ err.kind = "NotImplementedError"
    /\ method = <<"E", "u", "l", "e", "r">>
    /\ Len(t) = 3
    /\ Len(Y) = 3
    /\ calls = <<>>

\* ------------------------------------------------------------------ C3

\* Every casing of "rk4".
Rk4Casings == {<<a, b, "4">> : a \in {"r", "R"}, b \in {"k", "K"}}

BadArgs == FLe(dt, Zero) \/ FLe(t_max, Zero) \/ Len(y0) # 4

Entered == pc \notin {"idle", "check"}

\* C3: integrate raises ValueError when dt <= 0, t_max <= 0 or y0 has not
\* exactly 4 components; it raises NotImplementedError, naming the method,
\* when that is the only violation: the method is no casing of "rk4"; and a
\* call with valid arguments and any casing of "rk4" is never failed and
\* returns (t, Y).
C3_ErrorKinds ==
    Entered =>
        /\ BadArgs => Raised /\ err.kind = "ValueError"
        /\ (~BadArgs /\ method \notin Rk4Casings /\ pc \notin {"grid", "dispatch"}) =>
              /\ Raised
              /\ err.kind = "NotImplementedError"
              /\ err.named = method
        /\ (~BadArgs /\ method \in Rk4Casings) =>
              /\ ~Raised
              /\ err = NoError
              /\ Returned => result = <<t, Y>> /\ Len(t) >= 1
        /\ Raised => BadArgs \/ method \notin Rk4Casings

\* A call with the casing "Rk4" has returned.
C3_Witness ==
    /\ Returned
    /\ method = <<"R", "k", "4">>
    /\ result = <<t, Y>>
    /\ Len(Y) = 3

\* ------------------------------------------------------------------ C4

NonFinite(v) == ~AllFinite(v)

\* C4 as stated: a 4-component y0 with a non-finite component makes
\* integrate fail with a ValueError instead of returning a trajectory (here
\* for the calls that name a casing of "rk4").
C4_NonFiniteRejected ==
    (Len(y0) = 4 /\ NonFinite(y0) /\ method \in Rk4Casings /\ (Returned \/ Raised)) =>
        Raised /\ err.kind = "ValueError"

\* C4 (amended): integrate checks only that y0 has exactly 4 components; a
\* 4-component y0 with a non-finite component is accepted: with dt > 0,
\* t_max > 0 and a casing of "rk4" the call is not failed, and it returns a
\* trajectory whose row 0 is that y0.
C4_NonFiniteAccepted ==
    (Entered /\ Len(y0) = 4 /\ NonFinite(y0) /\ FGt(dt, Zero) /\ FGt(t_max, Zero)) =>
        /\ err.kind # "ValueError"
        /\ method \in Rk4Casings => ~Raised
        /\ Returned => /\ Len(RetY) = Len(RetT)
                       /\ RetY[1] = y0
                       /\ NonFinite(RetY[1])

\* integrate has returned a trajectory for a y0 holding NaN.
C4_Witness ==
    /\ Returned
    /\ y0 = <<NaN, Zero, Zero, Zero>>
    /\ Len(RetY) = 3
    /\ RetY[1] = y0

\* ------------------------------------------------------------------ C5

Constructed == ctorArgs # <<>>

CtorArg == ctorArgs[1]

AnyNonPositive ==
    LeZero(CtorArg.L1) \/ LeZero(CtorArg.L2) \/ LeZero(CtorArg.m1) \/ LeZero(CtorArg.m2)

\* The float equal to a constructor argument.
Supplied(x) == IF x.py = "int" THEN F(x.n, 0) ELSE x.v

\* C5: the constructor raises ValueError, and makes no instance, exactly when
\* one of L1, L2, m1, m2 is <= 0; otherwise the instance holds the supplied
\* L1, L2, m1, m2 and g (9.81 when g is omitted); every instance has all
\* four of L1, L2, m1, m2 > 0.
C5_ConstructorValidation ==
    /\ Constructed =>
          /\ ctorErr.kind = "ValueError" <=> AnyNonPositive
          /\ ctorErr.kind \in {"ValueError", "none"}
          /\ AnyNonPositive => pend = <<>>
          /\ ~AnyNonPositive =>
                pend = <<[L1 |-> Supplied(CtorArg.L1), L2 |-> Supplied(CtorArg.L2),
                          m1 |-> Supplied(CtorArg.m1), m2 |-> Supplied(CtorArg.m2),
                          g |-> IF CtorArg.g = <<>> THEN F(981, -2)
                                ELSE Supplied(CtorArg.g[1])]>>
    /\ pend # <<>> =>
          /\ FGt(Self.L1, Zero)
          /\ FGt(Self.L2, Zero)
          /\ FGt(Self.m1, Zero)
          /\ FGt(Self.m2, Zero)

\* An instance made from L1 = 2.0, L2 = 2, m1 = 1, m2 = 3 with g omitted.
C5_Witness ==
    /\ Constructed
    /\ CtorArg = [L1 |-> PyFloat(F(2, 0)), L2 |-> PyInt(2), m1 |-> PyInt(1),
                  m2 |-> PyInt(3), g |-> <<>>]
    /\ pend = <<[L1 |-> F(2, 0), L2 |-> F(2, 0), m1 |-> F(1, 0), m2 |-> F(3, 0),
                 g |-> F(981, -2)]>>

\* ------------------------------------------------------------------ C8

InCall == pc \notin {"idle"}

\* C8: the returned t and Y have the same length N >= 1 and Y[0] equals y0
\* exactly; once set, Y[0] is not overwritten by any step (no step assigns
\* row 0, and row 0 stays equal to y0); the caller's y0 is not changed while
\* the call runs.
C8_InitialConditionPreserved ==
    /\ [](Returned => /\ Len(RetT) = N
                      /\ Len(RetY) = N
                      /\ N >= 1
                      /\ RetY[1] = y0)
    /\ []((InCall /\ Y # <<>>) => /\ Y[1] = y0
                                 /\ \A j \in 1..Len(writes) : writes[j] >= 1)
    /\ [][(InCall /\ pc' # "idle") => /\ y0' = y0
                                     /\ (Y # <<>> => Y'[1] = Y[1])]_vars

\* A returned trajectory of 3 rows, both later rows written, row 0 still y0.
C8_Witness ==
    /\ Returned
    /\ y0 = Y0Bent
    /\ Len(RetY) = 3
    /\ writes = <<1, 2>>
    /\ RetY[1] = Y0Bent
    /\ RetY[2] # Y0Bent

\* ------------------------------------------------------------------ C9

Six == IntToFloat(6)

\* The r-th iteration (r = 1 for i = 0) made its four derivatives calls on
\* Y[i], Y[i] + (dt/2) k1, Y[i] + (dt/2) k2 and Y[i] + dt k3, in that order.
StagesOf(r) ==
    LET row == Y[r]
        c1 == calls[4 * (r - 1) + 1]
        c2 == calls[4 * (r - 1) + 2]
        c3 == calls[4 * (r - 1) + 3]
        c4 == calls[4 * (r - 1) + 4]
    IN /\ c1.arg = row
       /\ c2.arg = VAdd(row, VScale(FDiv(dt, Two), c1.out))
       /\ c3.arg = VAdd(row, VScale(FDiv(dt, Two), c2.out))
       /\ c4.arg = VAdd(row, VScale(dt, c3.out))

\* The row after the r-th is Y[i] + (dt/6) (k1 + 2 k2 + 2 k3 + k4).
UpdateOf(r) ==
    LET k1 == calls[4 * (r - 1) + 1].out
        k2 == calls[4 * (r - 1) + 2].out
        k3 == calls[4 * (r - 1) + 3].out
        k4 == calls[4 * (r - 1) + 4].out
    IN Y[r + 1] = VAdd(Y[r], VScale(FDiv(dt, Six),
                        VAdd(VAdd(VAdd(k1, VScale(Two, k2)), VScale(Two, k3)), k4)))

\* C9: a returned call has run exactly N-1 iterations and made exactly
\* 4(N-1) derivatives calls; iteration i calls derivatives four times, on
\* Y[i], Y[i] + (dt/2) k1, Y[i] + (dt/2) k2, Y[i] + dt k3 in that order, and
\* only then writes Y[i+1] = Y[i] + (dt/6)(k1 + 2 k2 + 2 k3 + k4); the rows
\* 1..N-1 are written once each, in increasing order.
C9_Rk4Schedule ==
    pc \in {"dispatch", "loop", "k1", "k2", "k3", "k4", "write", "return", "done"} =>
        /\ \A j \in 1..Len(writes) : writes[j] = j
        /\ Len(writes) <= N - 1
        /\ Len(calls) >= 4 * Len(writes)
        /\ Len(calls) <= 4 * Len(writes) + 4
        /\ pc = "write" => Len(calls) = 4 * Len(writes) + 4
        /\ pc \in {"loop", "return", "done"} => Len(calls) = 4 * Len(writes)
        /\ \A r \in 1..Len(writes) : StagesOf(r) /\ UpdateOf(r)
        /\ pc \in {"return", "done"} =>
              /\ Len(writes) = N - 1
              /\ i = N - 1
              /\ Len(calls) = 4 * (N - 1)
        /\ Returned => RetY = Y

\* A returned call of N = 3 samples: 2 iterations, 8 derivatives calls.
C9_Witness ==
    /\ Returned
    /\ N = 3
    /\ Len(calls) = 8
    /\ writes = <<1, 2>>
    /\ StagesOf(2)
    /\ UpdateOf(2)

\* ------------------------------------------------------------------ C10

Threshold == F(1, -8)

\* One derivatives call obeys the degeneracy guard.
Guarded(c) ==
    LET sinD == FSin(FSub(c.arg[1], c.arg[2]))
        cosD == FCos(FSub(c.arg[1], c.arg[2]))
        denom1 == FMul(Self.L1, Inertia(Self, sinD))
        denom2 == FMul(Self.L2, Inertia(Self, sinD))
        near == FLt(FAbs(denom1), Threshold) \/ FLt(FAbs(denom2), Threshold)
    IN /\ c.branch \in {"guard", "divide"}
       /\ Len(c.out) = 4
       /\ c.branch = "guard" <=> near
       /\ c.branch = "guard" => c.out[3] = Zero /\ c.out[4] = Zero
       /\ (c.branch = "divide" /\ AllFinite(c.arg)) =>
             /\ FGe(FAbs(denom1), Threshold)
             /\ FGe(FAbs(denom2), Threshold)
             /\ c.out[3] = FDiv(Num1(Self, c.arg, sinD, cosD), denom1)
             /\ c.out[4] = FDiv(Num2(Self, c.arg, sinD, cosD), denom2)

\* Every derivatives call made so far, inside integrate or directly.
AllCalls == {calls[j] : j \in 1..Len(calls)} \cup {dcall[j] : j \in 1..Len(dcall)}

CarriesVelocities(c) ==
    /\ Len(c.arg) = 4
    /\ Len(c.out) = 4
    /\ c.out[1] = c.arg[3]
    /\ c.out[2] = c.arg[4]

\* C11: for every state, in the guard branch and in the division branch,
\* the first two components of the array derivatives returns are the input's
\* omega1 and omega2 unchanged: dstate[0] is omega1 and dstate[1] is omega2.
C11_DerivativeIdentity ==
    pend # <<>> => \A c \in AllCalls : CarriesVelocities(c)

\* A guard-branch call and a division-branch call, both on states of reals
\* whose two velocities are nonzero and differ from each other.
C11_Witness ==
    /\ pend # <<>>
    /\ \E c \in AllCalls, d \in AllCalls :
          /\ c.branch = "guard" /\ d.branch = "divide"
          /\ AllFinite(c.arg) /\ AllFinite(d.arg)
          /\ c.arg[3] # Zero /\ c.arg[4] # Zero /\ c.arg[3] # c.arg[4]
          /\ d.arg[3] # Zero /\ d.arg[4] # Zero /\ d.arg[3] # d.arg[4]
          /\ CarriesVelocities(c) /\ CarriesVelocities(d)

\* ------------------------------------------------------------------ C12

\* The attributes __init__ stored for the latest constructor call.
AsConstructed ==
    [L1 |-> Supplied(CtorArg.L1), L2 |-> Supplied(CtorArg.L2),
     m1 |-> Supplied(CtorArg.m1), m2 |-> Supplied(CtorArg.m2),
     g |-> IF CtorArg.g = <<>> THEN F(981, -2) ELSE Supplied(CtorArg.g[1])]

\* The constructor arguments that the spin boxes hold now.
FromSpins ==
    [L1 |-> [py |-> "float", n |-> 0, v |-> spins.l1_spin],
     L2 |-> [py |-> "float", n |-> 0, v |-> spins.l2_spin],
     m1 |-> [py |-> "float", n |-> 0, v |-> spins.m1_spin],
     m2 |-> [py |-> "float", n |-> 0, v |-> spins.m2_spin],
     g |-> <<>>]

\* A step of a direct derivatives call.
DerivativesStep == pc = "idle" /\ dcall' # <<>>

\* A step inside integrate, its return to the caller included.
IntegrateStep == pc # "idle"

\* The step of run_simulation that constructs the model and enters integrate.
RunStep == program = "gui" /\ pc = "idle" /\ pc' = "check"

\* A step of save_data that wrote the file.
SaveStep == program = "gui" /\ pc = "idle" /\ pc' = "idle" /\ file' # file

\* C12: the attributes L1, L2, m1, m2, g of an instance are at all times
\* those its constructor stored; no step of derivatives, of integrate or of
\* save_to_file changes them; derivatives leaves its argument array as it
\* was, also when the argument is the row of Y that integrate hands it; a
\* run started from the window constructs an instance from the values the
\* spin boxes hold at that moment, and integrates with that instance.
C12_InstanceImmutable ==
    /\ [](pend # <<>> => Self = AsConstructed)
    /\ [](\A c \in AllCalls : c.after = c.arg)
    /\ []((program = "gui" /\ pc # "idle") =>
              /\ ctorArgs = <<FromSpins>>
              /\ pend # <<>>
              /\ Self.L1 = spins.l1_spin /\ Self.L2 = spins.l2_spin
              /\ Self.m1 = spins.m1_spin /\ Self.m2 = spins.m2_spin
              /\ Self.g = F(981, -2))
    /\ [][(DerivativesStep \/ IntegrateStep) => pend' = pend /\ ctorArgs' = ctorArgs]_vars
    /\ [][(pc \in {"k1", "k2", "k3", "k4"}) => Y' = Y /\ yi' = yi /\ y0' = y0]_vars
    /\ [][RunStep => /\ ctorArgs' = <<FromSpins>>
                     /\ ctorErr' = NoError
                     /\ pend' # <<>>
                     /\ pend'[1].L1 = spins.l1_spin]_vars
    /\ [][SaveStep => /\ ctorArgs' = <<FromSpins>>
                      /\ pend' # <<>>
                      /\ pend'[1] = [L1 |-> spins.l1_spin, L2 |-> spins.l2_spin,
                                     m1 |-> spins.m1_spin, m2 |-> spins.m2_spin,
                                     g |-> F(981, -2)]
                      /\ file'[1].t = window.t[1]
                      /\ file'[1].Y = window.Y[1]
                      /\ window' = window]_vars

\* A later run of the window, after an earlier trajectory was stored and
\* saved: the L1 spin box holds 0.1 instead of its initial 2.0, the run has
\* made all its derivatives calls on an instance whose L1 is 0.1, and the
\* trajectory about to be returned differs from the saved one.
C12_Witness ==
    /\ program = "gui"
    /\ pc = "return"
    /\ window.Y # <<>>
    /\ file # <<>>
    /\ file[1].Y = window.Y[1]
    /\ file[1].Y # Y
    /\ spins.l1_spin = F(1, -1)
    /\ Self.L1 = F(1, -1)
    /\ Self = AsConstructed
    /\ Len(calls) >= 4
    /\ \A j \in 1..Len(calls) : calls[j].after = calls[j].arg

\* ------------------------------------------------------------------ C13

\* The window is between two handlers and has an animation.
Animated == program = "gui" /\ pc = "idle" /\ window.ani # <<>>

\* C13: after any sequence of run_simulation and toggle_pause, paused is
\* true and the pause button reads "Возобновить" exactly when the timer of
\* the current animation is stopped, and paused is false and the button
\* reads "Пауза" exactly when that timer runs.
C13_PauseFlagAgrees ==
    Animated =>
        /\ window.paused <=> window.ani[1].event_source = "stopped"
        /\ ~window.paused <=> window.ani[1].event_source = "running"
        /\ window.paused <=> window.pause_button.text = ResumeText
        /\ ~window.paused <=> window.pause_button.text = PauseText

\* After run_simulation, toggle_pause, run_simulation: the new animation's
\* timer runs while paused is still true and the button still reads
\* "Возобновить".
C13_Witness ==
    /\ Animated
    /\ window.paused
    /\ window.pause_button.text = ResumeText
    /\ window.ani[1].event_source = "running"

====
